---- MODULE Spec2Model ----
(***************************************************************************)
(* Model of the POST /api/generate handler of src/index.js: record         *)
(* extraction (lines 122-161), the empty-batch check (163-166), the        *)
(* response headers and the report member (177-220), the logo              *)
(* pre-processing (233-249) and the chunked render scheduler (375-396),    *)
(* with the catch block (398-406); of the listeners on the archive and on  *)
(* the response (189-203); of one call of processRecord (252-372); and of  *)
(* the one-record-at-a-time loop of src/unnamed/part_000 (220-395).        *)
(*                                                                         *)
(* Strings are sequences of one-character strings, so that String.trim,    *)
(* string concatenation and string equality are computed, not assumed.     *)
(***************************************************************************)
EXTENDS Integers, Sequences, FiniteSets, TLC

\* ------------------------------------------------------------------ bounds
\* Longest sheet (number of raw rows) explored.
MaxRows == 3

\* Chunk size of the scheduler.  The source sets 50 (src/index.js:375); the
\* scheduler is parametric in it and the model explores a small value, so
\* that batches smaller than, equal to and larger than one chunk all occur.
\* The variable limit holds the chunk size of the run: this value, or any
\* value from 1 up to it where chunk sizes are compared.
CONCURRENCY_LIMIT == 2

\* ------------------------------------------------------------- cell values
\* A cell of a raw row, as xlsx.utils.sheet_to_json(sheet, {header: 1})
\* yields it: a string, a number, null, or nothing at all (undefined).
StrCell(s) == [t |-> "string", s |-> s, n |-> 0]
NumCell(n) == [t |-> "number", s |-> <<>>, n |-> n]
NullCell == [t |-> "null", s |-> <<>>, n |-> 0]
UndefinedCell == [t |-> "undefined", s |-> <<>>, n |-> 0]

\* The rows a sheet is built from.  Column 0 offers null, "A", " A ", the
\* number 1, a blank string and "a"; column 1 offers an absent cell, "a", the
\* empty string, a blank string, "a " and "1".
RowSet ==
    { <<NullCell>>,
      <<StrCell(<<"A">>), StrCell(<<"a">>)>>,
      <<StrCell(<<" ", "A", " ">>), StrCell(<<>>)>>,
      <<NumCell(1), StrCell(<<" ", "\t">>)>>,
      <<StrCell(<<" ">>), StrCell(<<"a", " ">>)>>,
      <<StrCell(<<"a">>), StrCell(<<"1">>)>> }

ColIndexes == {0, 1}
Formats == {"png", "jpeg"}

\* All sequences over S of length at most n.
SeqUpTo(S, n) == UNION { [1..k -> S] : k \in 0..n }

\* --------------------------------------------------------- pure functions
\* row[colIndex] on a JavaScript array: undefined beyond the end.
CellAt(row, col) == IF col + 1 <= Len(row) THEN row[col + 1] ELSE UndefinedCell

WhiteSpace == {" ", "\t"}

RECURSIVE TrimStart(_)
TrimStart(s) ==
    IF s # <<>> /\ Head(s) \in WhiteSpace THEN TrimStart(Tail(s)) ELSE s

RECURSIVE TrimEnd(_)
TrimEnd(s) ==
    IF s # <<>> /\ s[Len(s)] \in WhiteSpace
    THEN TrimEnd(SubSeq(s, 1, Len(s) - 1))
    ELSE s

\* String.prototype.trim
Trim(s) == TrimEnd(TrimStart(s))

Digit(d) == CASE d = 0 -> "0" [] d = 1 -> "1" [] d = 2 -> "2" [] d = 3 -> "3"
              [] d = 4 -> "4" [] d = 5 -> "5" [] d = 6 -> "6" [] d = 7 -> "7"
              [] d = 8 -> "8" [] d = 9 -> "9"

\* String(n) for a natural number n.
RECURSIVE DecimalString(_)
DecimalString(n) ==
    IF n < 10 THEN <<Digit(n)>> ELSE Append(DecimalString(n \div 10), Digit(n % 10))

\* String(serial) for a cell that passed the empty check.
StringOf(cell) ==
    CASE cell.t = "string" -> cell.s
      [] cell.t = "number" -> DecimalString(cell.n)
      [] cell.t = "null" -> <<"n", "u", "l", "l">>
      [] cell.t = "undefined" -> <<"u", "n", "d", "e", "f", "i", "n", "e", "d">>

\* The empty check without its null case.
IsEmptyCellNoNull(cell) ==
    \/ cell.t = "undefined"
    \/ (cell.t = "string" /\ cell.s = <<>>)

\* serial === undefined || serial === null || serial === ''
IsEmptyCell(cell) ==
    \/ cell.t = "undefined"
    \/ cell.t = "null"
    \/ (cell.t = "string" /\ cell.s = <<>>)

\* const serialStr = String(serial).trim()
SerialStr(cell) == Trim(StringOf(cell))

\* ------------------------------------------------------------------ state
VARIABLES
    upload,        \* req.files: [file, logo : BOOLEAN, sheet : the rows of the data file]
    body,          \* req.body: [colIndex, format, moduleStyle, eyeStyle, showText]
    variant,       \* which pipeline serves the request: "chunked" | "sequential"
    limit,         \* the value of CONCURRENCY_LIMIT in the build that serves the request
    logoBufs,      \* [logoBg, logoResized : "null" | "buffer", bgWrites, resizedWrites : assignments]
    job,           \* what one call of processRecord works on: [serial, width, size, dark]
    out,           \* what that call has produced so far: [step, shapes, text, w, h, ...]
    renderPaths,   \* history: what each started render does, in renderLog order
    fsLog,         \* history: the paths fs.unlinkSync was called on, in order
    disk,          \* the uploaded temporary files present in uploads/
    pc,            \* position of the handler
    filePath,      \* "null" or the data file
    logoPath,      \* "null" or the logo file
    rawData,       \* rows read from the data file
    i,             \* loop variable of the extraction loop
    validRecords,  \* accepted identifiers
    errors,        \* the ledger
    seen,          \* values already seen in this batch
    res,           \* the response: [statusCode, headers, body, headersSent, closed, commits, lateWrites]
    reportContent, \* the report text, as its fields
    archive,       \* [created, piped, finalized, errored, ended : BOOLEAN, members : Seq]
    ci,            \* loop variable of the scheduler loop
    tasks,         \* render tasks of the current chunk: index -> "pending" | "ok" | "fail"
    settleLog,     \* history: indices in the order their renders settled
    renderLog,     \* history: indices in the order processRecord was called
    failed,        \* history: indices whose render threw
    caught         \* the catch block has run

vars == <<upload, body, variant, limit, logoBufs, job, out, renderPaths, fsLog, disk, pc, filePath, logoPath, rawData, i, validRecords,
          errors, seen, res, reportContent, archive, ci, tasks, settleLog, renderLog,
          failed, caught>>

extractVars == <<i, validRecords, errors, seen>>
schedVars == <<ci, tasks, settleLog, renderLog, failed>>

\* let startIndex = 0  (the header check that follows changes nothing)
startIndex == 0

NoReport == [total |-> <<>>, successful |-> <<>>, skipped |-> <<>>, lines |-> <<>>]
NoHeaders == [expose |-> FALSE, total |-> <<>>, success |-> <<>>, skipped |-> <<>>,
              attachment |-> FALSE]

\* let logoBg = null; let logoResized = null;
NoBufs == [logoBg |-> "null", logoResized |-> "null", bgWrites |-> 0, resizedWrites |-> 0]

\* No call of processRecord is looked into.
NoJob == [serial |-> <<>>, width |-> 0, size |-> 0, dark |-> {}]
NoOut == [step |-> "none", shapes |-> <<>>, text |-> <<>>, w |-> 0, h |-> 0,
          bandW |-> 0, bandH |-> 0, fontSize |-> 0]

\* The request as it reaches the handler: uploads on disk, nothing done yet.
Received ==
    /\ (~upload.file => upload.sheet = <<>>)
    /\ logoBufs = NoBufs
    /\ renderPaths = <<>>
    /\ fsLog = <<>>
    /\ disk = (IF upload.file THEN {"file"} ELSE {}) \cup (IF upload.logo THEN {"logo"} ELSE {})
    /\ pc = "start"
    /\ filePath = "null"
    /\ logoPath = "null"
    /\ rawData = <<>>
    /\ i = 0
    /\ validRecords = <<>>
    /\ errors = <<>>
    /\ seen = {}
    /\ res = [statusCode |-> 200, headers |-> NoHeaders, body |-> "none",
              headersSent |-> FALSE, closed |-> FALSE, commits |-> 0, lateWrites |-> 0]
    /\ reportContent = NoReport
    /\ archive = [created |-> FALSE, piped |-> FALSE, finalized |-> FALSE,
                  errored |-> FALSE, ended |-> FALSE, members |-> <<>>]
    /\ ci = 0
    /\ tasks = <<>>
    /\ settleLog = <<>>
    /\ renderLog = <<>>
    /\ failed = {}
    /\ caught = FALSE

\* The defaults of the destructured configuration.
DefaultStyle == [moduleStyle : {"square"}, eyeStyle : {"square"}, showText : {"str:false"}]

\* The records with the fields of a and of b.
Merge(a, b) == [f \in DOMAIN a \cup DOMAIN b |-> IF f \in DOMAIN a THEN a[f] ELSE b[f]]

\* Requests for the chunked pipeline with the default style.
Init ==
    /\ upload \in [file : BOOLEAN, logo : BOOLEAN, sheet : SeqUpTo(RowSet, MaxRows)]
    /\ body \in {Merge(b, st) : b \in [colIndex : ColIndexes, format : Formats],
                                st \in DefaultStyle}
    /\ variant = "chunked"
    /\ limit = CONCURRENCY_LIMIT
    /\ job = NoJob
    /\ out = NoOut
    /\ Received

\* ------------------------------------------------------- response helpers
\* res.status(code).json(body)
SendJson(r, code, what) ==
    [r EXCEPT !.statusCode = code, !.body = what, !.headersSent = TRUE,
              !.commits = @ + 1]

\* if (filePath && fs.existsSync(filePath)) fs.unlinkSync(filePath)
UnlinkIfExists(d, path) == IF path # "null" /\ path \in d THEN d \ {path} ELSE d

\* An unlink attempted whether or not the file is still there.
UnlinkLogUnchecked(log, d, path) == IF path # "null" THEN Append(log, path) ELSE log

\* The unlinkSync calls of: if (path && fs.existsSync(path)) fs.unlinkSync(path)
UnlinkLog(log, d, path) == IF path # "null" /\ path \in d THEN Append(log, path) ELSE log

\* The catch block of the handler.
Catch ==
    /\ caught' = TRUE
    /\ disk' = UnlinkIfExists(disk, filePath')
    /\ fsLog' = UnlinkLog(fsLog, disk, filePath')
    /\ res' = IF ~res.headersSent THEN SendJson(res, 500, "Server error processing file.")
              ELSE res
    /\ pc' = "done"

\* --------------------------------------------------------------- receive
\* No data file: 400 and return.
NoDataFile ==
    /\ pc = "start"
    /\ ~upload.file
    /\ res' = SendJson(res, 400, "No data file uploaded")
    /\ pc' = "done"
    /\ UNCHANGED <<upload, body, variant, limit, logoBufs, job, out, renderPaths, fsLog, disk, filePath, logoPath, rawData, extractVars,
                   reportContent, archive, schedVars, caught>>

\* The data file is read and parsed; the configuration is taken from req.body.
ReadSheet ==
    /\ pc = "start"
    /\ upload.file
    /\ filePath' = "file"
    /\ logoPath' = IF upload.logo THEN "logo" ELSE "null"
    /\ rawData' = upload.sheet
    /\ i' = startIndex
    /\ pc' = "extract"
    /\ UNCHANGED <<upload, body, variant, limit, logoBufs, job, out, renderPaths, fsLog, disk, validRecords, errors, seen, res,
                   reportContent, archive, schedVars, caught>>

\* xlsx.readFile throws (unreadable file): the catch block runs.
ReadThrows ==
    /\ pc = "start"
    /\ upload.file
    /\ filePath' = "file"
    /\ logoPath' = IF upload.logo THEN "logo" ELSE "null"
    /\ Catch
    /\ UNCHANGED <<upload, body, variant, limit, logoBufs, job, out, renderPaths, rawData, extractVars, reportContent, archive, schedVars>>

\* ------------------------------------------------------------- extraction
EmptyEntry(rowNo) ==
    [row |-> rowNo, error |-> "Empty value", hasValue |-> FALSE, value |-> <<>>]
DuplicateEntry(rowNo, v) ==
    [row |-> rowNo, error |-> "Duplicate serial", hasValue |-> TRUE, value |-> v]

\* A ledger that loses the entry.
LedgerPushDropped(errs, entry) == errs

\* errors.push(entry)
LedgerPush(errs, entry) == Append(errs, entry)

\* unshift instead of push.
AcceptInFront(recs, s) == <<s>> \o recs

\* validRecords.push(serialStr)
Accept(recs, s) == Append(recs, s)

\* A duplicate check that never finds one.
IsDuplicateNever(seenSet, s) == FALSE

\* seen.has(serialStr)
IsDuplicate(seenSet, s) == s \in seenSet

\* One iteration of the extraction loop.
ExtractRow ==
    /\ pc = "extract"
    /\ i < Len(rawData)
    /\ LET row == rawData[i + 1]
           serial == CellAt(row, body.colIndex)
           serialStr == SerialStr(serial)
       IN  IF IsEmptyCell(serial)
           THEN /\ errors' = LedgerPush(errors, EmptyEntry(i + 1))
                /\ UNCHANGED <<seen, validRecords>>
           ELSE IF IsDuplicate(seen, serialStr)
           THEN /\ errors' = LedgerPush(errors, DuplicateEntry(i + 1, serialStr))
                /\ UNCHANGED <<seen, validRecords>>
           ELSE /\ seen' = seen \cup {serialStr}
                /\ validRecords' = Accept(validRecords, serialStr)
                /\ UNCHANGED errors
    /\ i' = i + 1
    /\ UNCHANGED <<upload, body, variant, limit, logoBufs, job, out, renderPaths, fsLog, disk, pc, filePath, logoPath, rawData, res,
                   reportContent, archive, schedVars, caught>>

\* An empty-batch check that never rejects.
BatchIsEmptyNever(recs) == FALSE

\* validRecords.length === 0
BatchIsEmpty(recs) == Len(recs) = 0

\* The loop is over and nothing was accepted: the data file is deleted and
\* the request is answered 400.
EmptyBatch ==
    /\ pc = "extract"
    /\ ~(i < Len(rawData))
    /\ BatchIsEmpty(validRecords)
    /\ disk' = (IF filePath # "null" THEN disk \ {filePath} ELSE disk)
    /\ fsLog' = (IF filePath # "null" THEN Append(fsLog, filePath) ELSE fsLog)
    /\ res' = SendJson(res, 400, "No valid records found in the selected column.")
    /\ pc' = "done"
    /\ UNCHANGED <<upload, body, variant, limit, logoBufs, job, out, renderPaths, filePath, logoPath, rawData, extractVars,
                   reportContent, archive, schedVars, caught>>

\* ------------------------------------------------- headers, archive, report
\* Headers whose success count is the row count.
DownloadHeadersSuccessFromTotal(total, success, skipped) ==
    [expose |-> TRUE, total |-> DecimalString(total), success |-> DecimalString(total),
     skipped |-> DecimalString(skipped), attachment |-> TRUE]

\* res.set of the four headers and res.attachment('qrcodes.zip')
DownloadHeaders(total, success, skipped) ==
    [expose |-> TRUE, total |-> DecimalString(total), success |-> DecimalString(success),
     skipped |-> DecimalString(skipped), attachment |-> TRUE]

\* `Row ${err.row}: ${err.error} (Value: "${err.value || ''}")`
ReportLine(err) ==
    [row |-> DecimalString(err.row), error |-> err.error,
     value |-> IF err.hasValue THEN err.value ELSE <<>>]

\* A report whose error count is taken from the row count.
ReportSkippedFromTotal(total, recs, errs) ==
    [total |-> DecimalString(total), successful |-> DecimalString(Len(recs)),
     skipped |-> DecimalString(total),
     lines |-> [k \in 1..Len(errs) |-> ReportLine(errs[k])]]

\* The report text: the three counts and one line per ledger entry.
Report(total, recs, errs) ==
    [total |-> DecimalString(total), successful |-> DecimalString(Len(recs)),
     skipped |-> DecimalString(Len(errs)),
     lines |-> [k \in 1..Len(errs) |-> ReportLine(errs[k])]]

ReportName == <<"r", "e", "p", "o", "r", "t", ".", "t", "x", "t">>
ReportMember == [name |-> ReportName, kind |-> "report", serial |-> <<>>]

\* A report that is not written at this point.
InitialMembersNone == <<>>

\* archive.append(reportContent, { name: 'report.txt' }) on the new archive
InitialMembers == <<ReportMember>>

\* The loop is over with at least one identifier: the download headers are
\* set, the archive is created and piped to the response, the report is
\* written as the first member.  With a logo the handler then awaits the
\* logo pre-processing, without one it goes on to the scheduler loop.
BeginArchive ==
    /\ pc = "extract"
    /\ ~(i < Len(rawData))
    /\ ~BatchIsEmpty(validRecords)
    /\ res' = [res EXCEPT !.headers = DownloadHeaders(Len(rawData) - startIndex,
                                                      Len(validRecords), Len(errors))]
    /\ reportContent' = Report(Len(rawData) - startIndex, validRecords, errors)
    /\ archive' = [archive EXCEPT !.created = TRUE, !.piped = TRUE,
                                   !.members = InitialMembers]
    /\ pc' = IF variant = "sequential" THEN "seq"
             ELSE IF logoPath # "null" THEN "logo" ELSE "loop"
    /\ UNCHANGED <<upload, body, variant, limit, logoBufs, job, out, renderPaths, fsLog, disk, filePath, logoPath, rawData, extractVars,
                   schedVars, caught>>

\* ------------------------------------------------------ logo pre-processing
\* logoBg = await sharp({create}).png().toBuffer();
\* logoResized = await sharp(logoPath).resize(...).toBuffer()
PrepareLogo(bufs) ==
    [bufs EXCEPT !.logoBg = "buffer", !.bgWrites = @ + 1,
                 !.logoResized = "buffer", !.resizedWrites = @ + 1]

\* Both sharp(...).toBuffer() calls resolve; the second one reads the logo
\* file, which has to be there.
LogoReady ==
    /\ pc = "logo"
    /\ logoPath \in disk
    /\ logoBufs' = PrepareLogo(logoBufs)
    /\ pc' = "loop"
    /\ UNCHANGED <<upload, body, variant, limit, job, out, renderPaths, fsLog, disk, filePath, logoPath, rawData, extractVars, res,
                   reportContent, archive, schedVars, caught>>

\* sharp(logoPath) rejects (an unreadable image): the catch block runs.
LogoThrows ==
    /\ pc = "logo"
    /\ UNCHANGED filePath
    /\ Catch
    /\ UNCHANGED <<upload, body, variant, limit, logoBufs, job, out, renderPaths, logoPath, rawData, extractVars, reportContent,
                   archive, schedVars>>

\* ---------------------------------------------------------------- scheduler
Min(a, b) == IF a < b THEN a ELSE b

\* A slice one record short: slice(from, from + CONCURRENCY_LIMIT - 1).
ChunkIndexesShort(n, from) == (from + 1)..Min(from + limit - 1, n)

\* An unbounded fan-out: slice(from).
ChunkIndexesRest(n, from) == (from + 1)..n

\* validRecords.slice(from, from + CONCURRENCY_LIMIT), as 1-based positions
ChunkIndexes(n, from) == (from + 1)..Min(from + limit, n)

\* const shouldShowText = showText === 'true' || showText === true
ShouldShowText(showText) == showText = "str:true" \/ showText = "bool:true"

\* The condition of the fast path in processRecord.
FastPath(cfg, logo) ==
    /\ cfg.moduleStyle = "square"
    /\ cfg.eyeStyle = "square"
    /\ logo = "null"
    /\ ~ShouldShowText(cfg.showText)

\* A render that opens the logo file itself.
RenderPlanReadingLogo(cfg, logo) ==
    IF FastPath(cfg, logo)
    THEN [path |-> "fast", logo |-> FALSE, caption |-> FALSE,
          inputs |-> {}, reads |-> {}, writes |-> {}]
    ELSE [path |-> "styled", logo |-> (logo # "null"),
          caption |-> ShouldShowText(cfg.showText),
          inputs |-> {}, reads |-> (IF logo # "null" THEN {logo} ELSE {}), writes |-> {}]

\* What one call of processRecord does: the path it takes, whether the logo
\* is composited and the caption band added, the variables of the handler it
\* takes as image inputs, the uploaded files it reads and the variables of
\* the handler it assigns.
RenderPlan(cfg, logo) ==
    IF FastPath(cfg, logo)
    THEN [path |-> "fast", logo |-> FALSE, caption |-> FALSE,
          inputs |-> {}, reads |-> {}, writes |-> {}]
    ELSE [path |-> "styled", logo |-> (logo # "null"),
          caption |-> ShouldShowText(cfg.showText),
          inputs |-> (IF logo # "null" THEN {"logoBg", "logoResized"} ELSE {}),
          reads |-> {}, writes |-> {}]

\* chunk.map(async (serial) => ...): every render of the chunk is started.
StartChunk ==
    /\ pc = "loop"
    /\ ci < Len(validRecords)
    /\ LET chunk == ChunkIndexes(Len(validRecords), ci)
       IN  /\ tasks' = [k \in chunk |-> "pending"]
           /\ renderLog' = renderLog \o
                  [k \in 1..Cardinality(chunk) |-> ci + k]
           /\ renderPaths' = renderPaths \o
                  [k \in 1..Cardinality(chunk) |-> RenderPlan(body, logoPath)]
    /\ pc' = "chunk"
    /\ UNCHANGED <<upload, body, variant, limit, logoBufs, job, out, fsLog, disk, filePath, logoPath, rawData, extractVars, res,
                   reportContent, archive, ci, settleLog, failed, caught>>

\* One render of the chunk settles: processRecord resolves, or it throws and
\* the task's own catch turns that into null.  A render that reads a file
\* resolves only if the file is there.
Settle(k, ok) ==
    /\ pc = "chunk"
    /\ k \in DOMAIN tasks
    /\ tasks[k] = "pending"
    /\ ok => RenderPlan(body, logoPath).reads \subseteq disk
    /\ tasks' = [tasks EXCEPT ![k] = IF ok THEN "ok" ELSE "fail"]
    /\ settleLog' = Append(settleLog, k)
    /\ failed' = IF ok THEN failed ELSE failed \cup {k}
    /\ UNCHANGED <<upload, body, variant, limit, logoBufs, job, out, renderPaths, fsLog, disk, pc, filePath, logoPath, rawData, extractVars,
                   res, reportContent, archive, ci, renderLog, caught>>

\* Results collected as the renders settle, not in the order of the chunk.
ResultsByCompletion(t, log) ==
    LET mine == SelectSeq(log, LAMBDA j : j \in DOMAIN t)
    IN  [k \in 1..Len(mine) |-> IF t[mine[k]] = "ok" THEN mine[k] ELSE 0]

\* One failed render loses the results of its whole chunk.
ResultsAllOrNothing(t, log) ==
    [k \in 1..Cardinality(DOMAIN t) |->
        LET idx == CHOOSE j \in DOMAIN t : Cardinality({m \in DOMAIN t : m < j}) = k - 1
        IN  IF \A j \in DOMAIN t : t[j] = "ok" THEN idx ELSE 0]

\* The results of a chunk in reverse order.
ResultsReversed(t, log) ==
    [k \in 1..Cardinality(DOMAIN t) |->
        LET idx == CHOOSE j \in DOMAIN t : Cardinality({m \in DOMAIN t : m > j}) = k - 1
        IN  IF t[idx] = "ok" THEN idx ELSE 0]

\* What Promise.all resolves to: one entry per task of the chunk, in the
\* order of the chunk; the position of a surviving record, 0 for null.
Results(t, log) ==
    [k \in 1..Cardinality(DOMAIN t) |->
        LET idx == CHOOSE j \in DOMAIN t : Cardinality({m \in DOMAIN t : m < j}) = k - 1
        IN  IF t[idx] = "ok" THEN idx ELSE 0]

\* if (res)
Survives(r) == r # 0

\* An extension taken from the format name itself.
ExtOfFormatName(fmt) ==
    CASE fmt = "png" -> <<"p", "n", "g">>
      [] fmt = "jpeg" -> <<"j", "p", "e", "g">>
      [] OTHER -> <<"w", "e", "b", "p">>

\* format === 'png' ? 'png' : 'jpg'
Ext(fmt) == IF fmt = "png" THEN <<"p", "n", "g">> ELSE <<"j", "p", "g">>

\* archive.append(res.buf, { name: `${res.serial}.${ext}` })
ImageMember(serial, fmt) ==
    [name |-> serial \o <<".">> \o Ext(fmt), kind |-> "image", serial |-> serial]

\* for (const res of results) if (res) archive.append(...)
RECURSIVE AppendResults(_, _, _, _)
AppendResults(members, results, recs, fmt) ==
    IF results = <<>> THEN members
    ELSE AppendResults(
             IF Survives(Head(results))
             THEN Append(members, ImageMember(recs[Head(results)], fmt))
             ELSE members,
             Tail(results), recs, fmt)

\* A wait that ends only when every render of the chunk has succeeded.
AllSucceeded(t) == \A k \in DOMAIN t : t[k] = "ok"

\* A wait that ends with the first render to settle.
FirstSettled(t) == \E k \in DOMAIN t : t[k] # "pending"

\* await Promise.all(...) of tasks that never reject: every task has settled
AllSettled(t) == \A k \in DOMAIN t : t[k] # "pending"

\* A loop variable that advances one short of the chunk size.
AdvanceShort(from) == from + limit - 1

\* i += CONCURRENCY_LIMIT
Advance(from) == from + limit

\* Promise.all has resolved: the surviving results are appended and the
\* loop variable advances.
ChunkDone ==
    /\ pc = "chunk"
    /\ AllSettled(tasks)
    /\ archive' = [archive EXCEPT !.members =
                      AppendResults(@, Results(tasks, settleLog), validRecords, body.format)]
    /\ ci' = Advance(ci)
    /\ tasks' = <<>>
    /\ pc' = "loop"
    /\ UNCHANGED <<upload, body, variant, limit, logoBufs, job, out, renderPaths, fsLog, disk, filePath, logoPath, rawData, extractVars, res,
                   reportContent, settleLog, renderLog, failed, caught>>

\* archive.finalize()
Finalize ==
    /\ pc = "loop"
    /\ ~(ci < Len(validRecords))
    /\ archive' = [archive EXCEPT !.finalized = TRUE]
    /\ pc' = "done"
    /\ UNCHANGED <<upload, body, variant, limit, logoBufs, job, out, renderPaths, fsLog, disk, filePath, logoPath, rawData, extractVars, res,
                   reportContent, schedVars, caught>>

Next ==
    \/ NoDataFile
    \/ ReadSheet
    \/ ReadThrows
    \/ ExtractRow
    \/ EmptyBatch
    \/ BeginArchive
    \/ LogoReady
    \/ LogoThrows
    \/ StartChunk
    \/ \E k \in 1..MaxRows, ok \in BOOLEAN : Settle(k, ok)
    \/ ChunkDone
    \/ Finalize

Spec == Init /\ [][Next]_vars

\* ------------------------------------------------- archive and sink events
\* Event listeners run only while the handler is suspended at an await or
\* has returned, never inside one of its synchronous stretches.
AtAwait == pc \in {"logo", "chunk", "done"}

\* The body of the 'end' and of the 'close' listener.
Cleanup ==
    /\ disk' = UnlinkIfExists(UnlinkIfExists(disk, filePath), logoPath)
    /\ fsLog' = UnlinkLog(UnlinkLog(fsLog, disk, filePath), disk, logoPath)

\* The piped archive writes its first bytes to the response: the headers go
\* out with the status set so far.
StreamStart ==
    /\ AtAwait
    /\ archive.piped
    /\ ~res.headersSent
    /\ ~res.closed
    /\ res' = [res EXCEPT !.headersSent = TRUE, !.commits = @ + 1]
    /\ UNCHANGED <<upload, body, variant, limit, logoBufs, job, out, renderPaths, fsLog, disk, pc, filePath, logoPath,
                   rawData, extractVars, reportContent, archive, schedVars, caught>>

\* The archiver emits 'error'; the listener calls res.status(500).send(...).
\* Before the headers are sent this commits a 500 response.  After they are
\* sent, status() still assigns the code and send() throws inside the
\* listener: the throw either ends the process or is absorbed by the emitter's
\* caller.
ArchiveError(dies) ==
    /\ AtAwait
    /\ archive.created
    /\ ~archive.errored
    /\ ~archive.ended
    /\ archive' = [archive EXCEPT !.errored = TRUE]
    /\ IF ~res.headersSent
       THEN /\ res' = SendJson(res, 500, "err.message")
            /\ ~dies
            /\ UNCHANGED pc
       ELSE /\ res' = [res EXCEPT !.statusCode = 500, !.lateWrites = @ + 1]
            /\ pc' = IF dies THEN "crashed" ELSE pc
    /\ UNCHANGED <<upload, body, variant, limit, logoBufs, job, out, renderPaths, fsLog, disk, filePath, logoPath,
                   rawData, extractVars, reportContent, schedVars, caught>>

\* The archiver emits 'end' once the finalized archive has been read out.
ArchiveEnd ==
    /\ AtAwait
    /\ archive.finalized
    /\ ~archive.ended
    /\ archive' = [archive EXCEPT !.ended = TRUE]
    /\ Cleanup
    /\ UNCHANGED <<upload, body, variant, limit, logoBufs, job, out, renderPaths, pc, filePath, logoPath,
                   rawData, extractVars, res, reportContent, schedVars, caught>>

\* The response emits 'close': the client went away, or the response is over.
ResClose ==
    /\ AtAwait
    /\ archive.created
    /\ ~res.closed
    /\ res' = [res EXCEPT !.closed = TRUE]
    /\ Cleanup
    /\ UNCHANGED <<upload, body, variant, limit, logoBufs, job, out, renderPaths, pc, filePath, logoPath,
                   rawData, extractVars, reportContent, archive, schedVars, caught>>

\* The sheets of the requests explored together with the events.
EventRows ==
    { <<NullCell>>,
      <<StrCell(<<"A">>), StrCell(<<"a">>)>>,
      <<StrCell(<<"a">>), StrCell(<<"1">>)>>,
      <<NumCell(1), StrCell(<<" ", "\t">>)>> }

InitEvents ==
    /\ upload \in [file : BOOLEAN, logo : BOOLEAN, sheet : SeqUpTo(EventRows, MaxRows)]
    /\ body \in {Merge(b, st) : b \in [colIndex : {0}, format : {"jpeg"}],
                                st \in DefaultStyle}
    /\ variant = "chunked"
    /\ limit = CONCURRENCY_LIMIT
    /\ job = NoJob
    /\ out = NoOut
    /\ Received

NextEvents ==
    \/ Next
    \/ StreamStart
    \/ \E dies \in BOOLEAN : ArchiveError(dies)
    \/ ArchiveEnd
    \/ ResClose

\* The handler together with the events of the archive and of the response.
SpecEvents == InitEvents /\ [][NextEvents]_vars

\* ------------------------------------------- the sequential pipeline variant
\* The render branch of the one-record-at-a-time loop: the fast path is taken
\* on the two style settings alone; the styled branch builds the backing
\* plate and reads and resizes the logo file for every record, then
\* composites them; there is no caption.
RenderPlanSequential(cfg, logo) ==
    IF cfg.moduleStyle = "square" /\ cfg.eyeStyle = "square"
    THEN [path |-> "fast", logo |-> FALSE, caption |-> FALSE,
          inputs |-> {}, reads |-> {}, writes |-> {}]
    ELSE [path |-> "styled", logo |-> (logo # "null"), caption |-> FALSE,
          inputs |-> {}, reads |-> (IF logo # "null" THEN {logo} ELSE {}), writes |-> {}]

\* for (const serial of validRecords): the render of the next record starts.
SeqRender ==
    /\ pc = "seq"
    /\ ci < Len(validRecords)
    /\ renderLog' = Append(renderLog, ci + 1)
    /\ renderPaths' = Append(renderPaths, RenderPlanSequential(body, logoPath))
    /\ pc' = "seqAwait"
    /\ UNCHANGED <<upload, body, variant, limit, logoBufs, job, out, fsLog, disk, filePath, logoPath, rawData,
                   extractVars, res, reportContent, archive, ci, tasks, settleLog,
                   failed, caught>>

\* The awaited render resolves and its image is appended, or it throws and
\* the catch block of the handler runs.
SeqSettle(ok) ==
    /\ pc = "seqAwait"
    /\ ok => RenderPlanSequential(body, logoPath).reads \subseteq disk
    /\ settleLog' = Append(settleLog, ci + 1)
    /\ IF ok
       THEN /\ archive' = [archive EXCEPT !.members =
                              Append(@, ImageMember(validRecords[ci + 1], body.format))]
            /\ ci' = ci + 1
            /\ pc' = "seq"
            /\ UNCHANGED <<fsLog, disk, res, failed, caught>>
       ELSE /\ failed' = failed \cup {ci + 1}
            /\ UNCHANGED filePath
            /\ Catch
            /\ UNCHANGED <<archive, ci>>
    /\ UNCHANGED <<upload, body, variant, limit, logoBufs, job, out, renderPaths, filePath, logoPath, rawData,
                   extractVars, reportContent, tasks, renderLog>>

\* archive.finalize() after the loop.
SeqFinalize ==
    /\ pc = "seq"
    /\ ~(ci < Len(validRecords))
    /\ archive' = [archive EXCEPT !.finalized = TRUE]
    /\ pc' = "done"
    /\ UNCHANGED <<upload, body, variant, limit, logoBufs, job, out, renderPaths, fsLog, disk, filePath, logoPath,
                   rawData, extractVars, res, reportContent, schedVars, caught>>

\* The configurations explored for the render branch and the member names.
ModuleStyles == {"square", "dots", "rounded"}
EyeStyles == {"square", "rounded"}
ShowTexts == {"str:true", "bool:true", "str:false"}
AllFormats == {"png", "jpeg", "webp"}
Variants == {"chunked", "sequential"}

PathRows ==
    { <<StrCell(<<"A">>), StrCell(<<"a">>)>>,
      <<StrCell(<<"a">>), StrCell(<<"1">>)>> }

InitPaths ==
    /\ upload \in [file : BOOLEAN, logo : BOOLEAN, sheet : SeqUpTo(PathRows, MaxRows)]
    /\ body \in [colIndex : {0}, format : AllFormats, moduleStyle : ModuleStyles,
                 eyeStyle : EyeStyles, showText : ShowTexts]
    /\ variant \in Variants
    /\ limit = CONCURRENCY_LIMIT
    /\ job = NoJob
    /\ out = NoOut
    /\ Received

NextPaths ==
    \/ Next
    \/ SeqRender
    \/ \E ok \in BOOLEAN : SeqSettle(ok)
    \/ SeqFinalize

\* Both pipeline variants over every style configuration.
SpecPaths == InitPaths /\ [][NextPaths]_vars

\* ------------------------------------------------ runs over the chunk sizes
\* The sheets of the requests explored over the chunk sizes: four distinct
\* identifiers and an empty cell.
ChunkRows ==
    { <<StrCell(<<"A">>)>>,
      <<StrCell(<<"a">>)>>,
      <<StrCell(<<"b">>)>>,
      <<NumCell(1)>>,
      <<NullCell>> }

\* Requests served by the chunked pipeline built with any chunk size from 1
\* to the bound, and by the sequential pipeline (one record at a time).
InitChunks ==
    /\ upload \in [file : BOOLEAN, logo : BOOLEAN, sheet : SeqUpTo(ChunkRows, MaxRows)]
    /\ body \in {Merge(b, st) : b \in [colIndex : {0}, format : {"jpeg"}],
                                st \in DefaultStyle}
    /\ variant \in Variants
    /\ limit \in 1..CONCURRENCY_LIMIT
    /\ (variant = "sequential" => limit = 1)
    /\ job = NoJob
    /\ out = NoOut
    /\ Received

SpecChunks == InitChunks /\ [][NextPaths]_vars

\* ------------------------------------------------- one call of processRecord
\* const isFinder = (r, c) => ...: inside the top-left, top-right or the
\* bottom-left 7x7 corner.
isFinderTopOnly(r, c, size) ==
    \/ (r < 7 /\ c < 7)
    \/ (r < 7 /\ c >= size - 7)

isFinder(r, c, size) ==
    \/ (r < 7 /\ c < 7)
    \/ (r < 7 /\ c >= size - 7)
    \/ (r >= size - 7 /\ c < 7)

\* const eyes = [{ r: 0, c: 0 }, { r: 0, c: size - 7 }, { r: size - 7, c: 0 }]
eyes(size) == <<[r |-> 0, c |-> 0], [r |-> 0, c |-> size - 7], [r |-> size - 7, c |-> 0]>>

\* A shape pushed to shapes.  Lengths are in tenths of a module, so that the
\* source's 0.1, 0.4, 0.5, 0.8 and 1.5 are integers.
Shape(kind, tag, r, c, x10, y10, size10, rx10, fill) ==
    [kind |-> kind, tag |-> tag, r |-> r, c |-> c, x10 |-> x10, y10 |-> y10,
     size10 |-> size10, rx10 |-> rx10, fill |-> fill]

\* The three rects pushed for one eye: outer, hole, inner.
EyeShapes(eye, eyeStyle) ==
    LET rounded == eyeStyle = "rounded"
    IN  << Shape("eye", "rect", eye.r, eye.c, 10 * eye.c, 10 * eye.r, 70,
                 IF rounded THEN 15 ELSE 0, "colorDark"),
           Shape("eye", "rect", eye.r, eye.c, 10 * (eye.c + 1), 10 * (eye.r + 1), 50,
                 IF rounded THEN 10 ELSE 0, "colorLight"),
           Shape("eye", "rect", eye.r, eye.c, 10 * (eye.c + 2), 10 * (eye.r + 2), 30,
                 IF rounded THEN 5 ELSE 0, "colorDark") >>

\* for (const eye of eyes) { shapes.push x 3 }
AllEyeShapes(size, eyeStyle) ==
    EyeShapes(eyes(size)[1], eyeStyle) \o EyeShapes(eyes(size)[2], eyeStyle)
       \o EyeShapes(eyes(size)[3], eyeStyle)

\* The shape pushed for the dark module at (r, c).
ModuleShape(r, c, moduleStyle) ==
    IF moduleStyle = "dots"
    THEN Shape("module", "circle", r, c, 10 * c + 5, 10 * r + 5, 4, 0, "colorDark")
    ELSE IF moduleStyle = "rounded"
    THEN Shape("module", "rect", r, c, 10 * c + 1, 10 * r + 1, 8, 2, "colorDark")
    ELSE Shape("module", "rect", r, c, 10 * c, 10 * r, 10, 0, "colorDark")

\* The two nested loops over r and c: row-major, finder cells skipped, one
\* shape for every cell with modules[r * size + c] set.
ModuleShapes(dark, size, moduleStyle) ==
    LET cells == [k \in 1..(size * size) |-> k - 1]
        drawn == SelectSeq(cells, LAMBDA idx :
                     ~isFinder(idx \div size, idx % size, size) /\ idx \in dark)
    IN  [k \in 1..Len(drawn) |-> ModuleShape(drawn[k] \div size, drawn[k] % size, moduleStyle)]

\* s.replace(new RegExp(ch, 'g'), entity)
RECURSIVE ReplaceAll(_, _, _)
ReplaceAll(s, ch, entity) ==
    IF s = <<>> THEN <<>>
    ELSE (IF Head(s) = ch THEN entity ELSE <<Head(s)>>) \o ReplaceAll(Tail(s), ch, entity)

AmpEntity == <<"&", "a", "m", "p", ";">>
LtEntity == <<"&", "l", "t", ";">>
GtEntity == <<"&", "g", "t", ";">>
QuotEntity == <<"&", "q", "u", "o", "t", ";">>
AposEntity == <<"&", "a", "p", "o", "s", ";">>

\* The five replacements with the ampersand replaced last.
escapedSerialAmpLast(serial) ==
    ReplaceAll(ReplaceAll(ReplaceAll(ReplaceAll(ReplaceAll(serial,
        "<", LtEntity), ">", GtEntity), "\"", QuotEntity), "'", AposEntity), "&", AmpEntity)

\* const escapedSerial = String(serial).replace(/&/g, '&amp;')...
escapedSerial(serial) ==
    ReplaceAll(ReplaceAll(ReplaceAll(ReplaceAll(ReplaceAll(serial,
        "&", AmpEntity), "<", LtEntity), ">", GtEntity), "\"", QuotEntity), "'", AposEntity)

Max(a, b) == IF a > b THEN a ELSE b

\* A band height without its lower limit.
textHeightNoFloor(qrWidth) == (qrWidth * 15) \div 100

\* Math.max(40, Math.floor(qrWidth * 0.15)).  In double arithmetic
\* floor(w * 0.15) is floor(15 w / 100) for every w up to 200000.
textHeight(qrWidth) == Max(40, (qrWidth * 15) \div 100)

\* Math.floor(textHeight * 0.4), which is floor(4 t / 10) in double arithmetic
\* over the same range.
fontSize(th) == (th * 4) \div 10

\* The fast path: the library is asked for an image of width qrWidth.
RenderFast ==
    /\ out.step = "start"
    /\ FastPath(body, logoPath)
    /\ out' = [out EXCEPT !.step = "done", !.w = job.width, !.h = job.width]
    /\ UNCHANGED <<upload, body, variant, limit, logoBufs, job, renderPaths, fsLog, disk, pc,
                   filePath, logoPath, rawData, extractVars, res, reportContent, archive,
                   schedVars, caught>>

\* The styled path: the eyes are pushed to shapes.
DrawEyes ==
    /\ out.step = "start"
    /\ ~FastPath(body, logoPath)
    /\ out' = [out EXCEPT !.step = "eyes",
                          !.shapes = @ \o AllEyeShapes(job.size, body.eyeStyle)]
    /\ UNCHANGED <<upload, body, variant, limit, logoBufs, job, renderPaths, fsLog, disk, pc,
                   filePath, logoPath, rawData, extractVars, res, reportContent, archive,
                   schedVars, caught>>

\* The remaining modules are pushed and the svg of qrWidth x qrWidth is built.
DrawModules ==
    /\ out.step = "eyes"
    /\ out' = [out EXCEPT !.step = "svg",
                          !.shapes = @ \o ModuleShapes(job.dark, job.size, body.moduleStyle),
                          !.w = job.width, !.h = job.width]
    /\ UNCHANGED <<upload, body, variant, limit, logoBufs, job, renderPaths, fsLog, disk, pc,
                   filePath, logoPath, rawData, extractVars, res, reportContent, archive,
                   schedVars, caught>>

\* if (shouldShowText): the image is extended at the bottom by textHeight and
\* the caption svg of qrWidth x textHeight is composited there.
Caption ==
    /\ out.step = "svg"
    /\ ShouldShowText(body.showText)
    /\ out' = [out EXCEPT !.step = "done",
                          !.text = escapedSerial(job.serial),
                          !.bandW = job.width,
                          !.bandH = textHeight(job.width),
                          !.fontSize = fontSize(textHeight(job.width)),
                          !.h = @ + textHeight(job.width)]
    /\ UNCHANGED <<upload, body, variant, limit, logoBufs, job, renderPaths, fsLog, disk, pc,
                   filePath, logoPath, rawData, extractVars, res, reportContent, archive,
                   schedVars, caught>>

\* else: the image is encoded as it is.
NoCaption ==
    /\ out.step = "svg"
    /\ ~ShouldShowText(body.showText)
    /\ out' = [out EXCEPT !.step = "done"]
    /\ UNCHANGED <<upload, body, variant, limit, logoBufs, job, renderPaths, fsLog, disk, pc,
                   filePath, logoPath, rawData, extractVars, res, reportContent, archive,
                   schedVars, caught>>

\* Smallest side of a module matrix (version 1) and the largest explored.
MinSize == 21
MaxSize == 25

\* Longest string of significant characters explored, and the widest image.
MaxSerial == 2
MaxWidth == 300

\* The module matrices explored: for each side, no dark module, every module
\* dark, and each single dark module.
Matrices ==
    UNION { {[size |-> n, dark |-> {}], [size |-> n, dark |-> 0..(n * n - 1)]}
              \cup {[size |-> n, dark |-> {idx}] : idx \in 0..(n * n - 1)}
            : n \in {MinSize, MaxSize} }

\* The identifiers explored: every string of the significant characters up to
\* MaxSerial, and strings that already hold an entity.
SerialChars == {"&", "<", ">", "\"", "'", ";", "a"}
Serials ==
    SeqUpTo(SerialChars, MaxSerial)
       \cup {LtEntity, AmpEntity, <<"a", "&", "l", "t", ";", "<">>,
             <<"&", "a", "m", "p", ";", "l", "t", ";">>}

\* The calls of processRecord explored: the matrices with one identifier and
\* width, the identifiers and the widths with one matrix.
Jobs ==
    {[serial |-> <<"A">>, width |-> MaxWidth, size |-> m.size, dark |-> m.dark] :
        m \in Matrices}
    \cup {[serial |-> s, width |-> MaxWidth, size |-> MinSize, dark |-> {0}] : s \in Serials}
    \cup {[serial |-> <<"A">>, width |-> w, size |-> MinSize, dark |-> {0}] : w \in 1..MaxWidth}

\* One call of processRecord without a logo, for every style.
InitRender ==
    /\ upload = [file |-> TRUE, logo |-> FALSE, sheet |-> <<>>]
    /\ body \in [colIndex : {0}, format : {"jpeg"}, moduleStyle : ModuleStyles,
                 eyeStyle : EyeStyles, showText : ShowTexts]
    /\ variant = "chunked"
    /\ limit = CONCURRENCY_LIMIT
    /\ job \in Jobs
    /\ out = [NoOut EXCEPT !.step = "start"]
    /\ Received

NextRender ==
    \/ RenderFast
    \/ DrawEyes
    \/ DrawModules
    \/ Caption
    \/ NoCaption

SpecRender == InitRender /\ [][NextRender]_vars

\* ------------------------------------------------------ the scheduler's runs
\* Requests served by the chunked pipeline, with any chunk size up to the
\* bound.
InitLive == InitChunks /\ variant = "chunked"

\* The handler runs its synchronous code up to the next await, and every
\* render that was started settles.
Fairness ==
    /\ WF_vars(StartChunk)
    /\ WF_vars(ChunkDone)
    /\ WF_vars(Finalize)
    /\ \A k \in 1..MaxRows : WF_vars(\E ok \in BOOLEAN : Settle(k, ok))

SpecLive == InitLive /\ [][Next]_vars /\ Fairness

\* ============================================================== properties
\* The cell the extraction reads in row j (1-based).
SelectedCell(j) == CellAt(rawData[j], body.colIndex)

\* Empty string, null or absent, in the words of the data model.
BlankCell(cell) ==
    cell.t \in {"null", "undefined"} \/ (cell.t = "string" /\ Len(cell.s) = 0)

\* The extraction loop has run to its end.
ExtractionOver ==
    \/ pc = "extract" /\ i >= Len(rawData)
    \/ pc \notin {"start", "extract"} /\ upload.file /\ (~caught \/ archive.created)

\* Rows the loop has gone through so far.
RowsDone == 1..(IF pc = "start" THEN 0 ELSE i)

\* The trimmed value of a row that is not blank.
ValueOf(j) == Trim(StringOf(SelectedCell(j)))

\* Row j is not blank and no earlier row carries its value.
FirstCarrier(j) ==
    /\ ~BlankCell(SelectedCell(j))
    /\ \A m \in 1..(j - 1) : BlankCell(SelectedCell(m)) \/ ValueOf(m) # ValueOf(j)

\* Row j is not blank and an earlier row carries its value.
LaterCarrier(j) ==
    /\ ~BlankCell(SelectedCell(j))
    /\ \E m \in 1..(j - 1) : ~BlankCell(SelectedCell(m)) /\ ValueOf(m) = ValueOf(j)

\* The ledger positions that name row j.
EntriesOfRow(j) == {e \in 1..Len(errors) : errors[e].row = j}

\* C1: accepted identifiers plus ledger entries equals the rows processed, at
\* every point of the extraction loop, and once the loop is over that number
\* is the full row count.
C1_RowsConserved ==
    /\ Len(validRecords) + Len(errors) = i - startIndex
    /\ ExtractionOver => Len(validRecords) + Len(errors) = Len(rawData)

C1_Witness ==
    /\ ExtractionOver
    /\ Len(rawData) = MaxRows
    /\ Len(validRecords) >= 1
    /\ Len(errors) >= 1

\* C2: the accepted list holds no string twice; its entries are exactly the
\* values of the rows that carry a value first; every later row carrying an
\* already seen value has exactly one 'Duplicate serial' ledger entry, with
\* its 1-indexed row number and the value, and adds nothing to the list.
C2_FirstOccurrenceWins ==
    /\ \A a, b \in 1..Len(validRecords) : validRecords[a] = validRecords[b] => a = b
    /\ {validRecords[k] : k \in 1..Len(validRecords)}
          = {ValueOf(j) : j \in {r \in RowsDone : FirstCarrier(r)}}
    /\ Len(validRecords) = Cardinality({r \in RowsDone : FirstCarrier(r)})
    /\ \A j \in RowsDone :
          LaterCarrier(j) =>
             /\ Cardinality(EntriesOfRow(j)) = 1
             /\ \A e \in EntriesOfRow(j) :
                   errors[e] = [row |-> j, error |-> "Duplicate serial",
                                hasValue |-> TRUE, value |-> ValueOf(j)]
    /\ \A e \in 1..Len(errors) :
          errors[e].error = "Duplicate serial" => LaterCarrier(errors[e].row)

C2_Witness ==
    /\ ExtractionOver
    /\ \E e \in 1..Len(errors) :
          /\ errors[e].error = "Duplicate serial"
          /\ StringOf(SelectedCell(errors[e].row)) # errors[e].value
    /\ Len(validRecords) >= 2

\* C3: no accepted identifier is the empty string and none starts or ends
\* with a whitespace character.
C3_NonEmptyTrimmed ==
    \A k \in 1..Len(validRecords) :
        /\ Len(validRecords[k]) > 0
        /\ validRecords[k][1] \notin WhiteSpace
        /\ validRecords[k][Len(validRecords[k])] \notin WhiteSpace

\* C4: the iteration over a row whose selected cell is the empty string, null
\* or absent appends exactly one 'Empty value' entry with the row's 1-indexed
\* number, accepts nothing and leaves the seen set as it was.
C4_EmptyCell ==
    [][ (pc = "extract" /\ i < Len(rawData) /\ BlankCell(SelectedCell(i + 1)))
           => /\ errors' = Append(errors, [row |-> i + 1, error |-> "Empty value",
                                           hasValue |-> FALSE, value |-> <<>>])
              /\ validRecords' = validRecords
              /\ seen' = seen ]_vars

C4_Witness ==
    /\ ExtractionOver
    /\ seen # {}
    /\ \E e, f \in 1..Len(errors) :
          /\ errors[e].error = "Empty value"
          /\ errors[f].error = "Empty value"
          /\ SelectedCell(errors[e].row).t = "string"
          /\ SelectedCell(errors[f].row).t \in {"null", "undefined"}

\* s is t with zero or more elements added at the end.
IsPrefix(s, t) == Len(s) <= Len(t) /\ SubSeq(t, 1, Len(s)) = s

\* The first row that carries value v.
FirstRowOf(v) ==
    CHOOSE j \in 1..Len(rawData) :
        /\ ~BlankCell(SelectedCell(j)) /\ ValueOf(j) = v
        /\ \A m \in 1..(j - 1) : BlankCell(SelectedCell(m)) \/ ValueOf(m) # v

\* C5: accepted identifiers stand in the order of the rows where each was
\* first seen, ledger entries have strictly increasing row numbers, both
\* lists only grow at the end during extraction and no later step changes
\* them.
C5_OrderState ==
    /\ \A a, b \in 1..Len(validRecords) :
          a < b => FirstRowOf(validRecords[a]) < FirstRowOf(validRecords[b])
    /\ \A e, f \in 1..Len(errors) : e < f => errors[e].row < errors[f].row

C5_OrderPreserved ==
    /\ []C5_OrderState
    /\ [][ /\ IsPrefix(validRecords, validRecords')
           /\ IsPrefix(errors, errors')
           /\ (pc # "extract" => validRecords' = validRecords /\ errors' = errors) ]_vars

C5_Witness ==
    /\ archive.finalized
    /\ Len(validRecords) >= 2
    /\ Len(errors) >= 1

\* The image members of the archive, in archive order.
ImageMembers == SelectSeq(archive.members, LAMBDA m : m.kind = "image")
ReportMembers == SelectSeq(archive.members, LAMBDA m : m.kind = "report")

\* Renders started and not yet settled.
InFlight == Len(renderLog) - Len(settleLog)

\* C6: when extraction ends with no accepted identifier the request is
\* answered 400 and nothing else is produced: no archive, no member, no
\* render, no download header.
C6_EmptyBatchRejected ==
    (ExtractionOver /\ pc # "extract" /\ Len(validRecords) = 0) =>
        /\ pc = "done"
        /\ res.statusCode = 400
        /\ res.body = "No valid records found in the selected column."
        /\ ~archive.created /\ ~archive.piped /\ ~archive.finalized
        /\ archive.members = <<>>
        /\ reportContent = NoReport
        /\ renderLog = <<>>
        /\ res.headers = NoHeaders

C6_Witness ==
    /\ pc = "done"
    /\ Len(rawData) >= 2
    /\ Len(validRecords) = 0
    /\ res.statusCode = 400
    /\ \E e \in 1..Len(errors) : SelectedCell(errors[e].row).t = "string"

\* C7: a finalized archive of a batch in which no render failed holds exactly
\* one image member per accepted identifier, N in all, and exactly one report
\* member.
C7_ArchiveComplete ==
    (archive.finalized /\ failed = {}) =>
        /\ Len(ImageMembers) = Len(validRecords)
        /\ \A k \in 1..Len(validRecords) :
              Cardinality({m \in 1..Len(ImageMembers) :
                              ImageMembers[m].serial = validRecords[k]}) = 1
        /\ Len(ReportMembers) = 1

C7_Witness ==
    /\ archive.finalized
    /\ failed = {}
    /\ Len(validRecords) > CONCURRENCY_LIMIT
    /\ Len(ImageMembers) = Len(validRecords)

\* C8: failing renders never abort the batch: the catch block does not run
\* because of them, the handler ends by finalizing the archive, and the
\* finalized archive holds an image member for exactly the identifiers whose
\* render did not throw, N - |F| in all.
C8_FaultIsolation ==
    /\ failed # {} => ~caught
    /\ (pc = "done" /\ failed # {}) => archive.finalized
    /\ archive.finalized =>
          /\ Len(ImageMembers) = Len(validRecords) - Cardinality(failed)
          /\ \A k \in 1..Len(validRecords) :
                Cardinality({m \in 1..Len(ImageMembers) :
                                ImageMembers[m].serial = validRecords[k]})
                   = IF k \in failed THEN 0 ELSE 1

C8_Witness ==
    /\ archive.finalized
    /\ failed # {}
    /\ Len(ImageMembers) >= 1
    /\ \E k \in failed : k < Len(validRecords) /\ (k + 1) \notin failed

\* The positions of the chunks whose results have been appended.
Appended == 1..Min(ci, Len(validRecords))

\* C9: at every moment the image members of the archive are the accepted
\* identifiers of the chunks appended so far, in list order, with the failed
\* ones left out, whatever the order in which the renders settled.
C9_ArchiveInListOrder ==
    LET kept == SelectSeq([k \in 1..Len(validRecords) |-> k],
                          LAMBDA k : k \in Appended /\ k \notin failed)
    IN  /\ Len(ImageMembers) = Len(kept)
        /\ \A m \in 1..Len(kept) : ImageMembers[m].serial = validRecords[kept[m]]

C9_Witness ==
    /\ archive.finalized
    /\ Len(ImageMembers) >= 2
    /\ \E a, b \in 1..Len(settleLog) :
          /\ a < b /\ settleLog[a] > settleLog[b]
          /\ settleLog[a] \notin failed /\ settleLog[b] \notin failed

\* C10: the renders started and not yet settled never number more than the
\* chunk size.
C10_BoundedConcurrency ==
    /\ InFlight >= 0
    /\ InFlight <= limit

C10_Witness ==
    /\ InFlight = CONCURRENCY_LIMIT
    /\ Len(validRecords) > CONCURRENCY_LIMIT
    /\ Len(renderLog) < Len(validRecords)

\* The chunk (0-based) that position k of the accepted list belongs to.
ChunkOf(k) == (k - 1) \div limit

\* The positions whose render has been started / has settled.
Started == {renderLog[n] : n \in 1..Len(renderLog)}
Settled == {settleLog[n] : n \in 1..Len(settleLog)}

\* C11: when a render of a chunk has been started, every render of every
\* earlier chunk has settled and the image of each one that did not fail is
\* already in the archive.
C11_ChunkBarrier ==
    \A j \in Started :
        \A m \in 1..Len(validRecords) :
            ChunkOf(m) < ChunkOf(j) =>
                /\ m \in Settled
                /\ m \notin failed =>
                      \E n \in 1..Len(ImageMembers) :
                          ImageMembers[n].serial = validRecords[m]

C11_Witness ==
    /\ pc = "chunk"
    /\ Len(renderLog) > CONCURRENCY_LIMIT
    /\ settleLog[1] \in failed
    /\ settleLog[1] # 1
    /\ Len(ImageMembers) >= 1

\* C12: an archive that exists has report.txt as its first member and no
\* second report member; no image member and no started render exists
\* without it.
C12_ReportFirst ==
    /\ archive.created =>
          /\ Len(archive.members) >= 1
          /\ archive.members[1] = [name |-> ReportName, kind |-> "report", serial |-> <<>>]
          /\ Len(ReportMembers) = 1
    /\ (renderLog # <<>> \/ Len(ImageMembers) > 0) =>
          /\ archive.created
          /\ Len(ReportMembers) = 1

C12_Witness ==
    /\ archive.finalized
    /\ Len(ImageMembers) >= 2
    /\ archive.members[1].kind = "report"

\* C17: no position of the accepted list is rendered twice, whether its
\* render succeeded or failed; a run that finalizes has rendered every
\* position exactly once; the handler never goes back to an earlier step.
C17_NoRetry ==
    /\ \A a, b \in 1..Len(renderLog) : renderLog[a] = renderLog[b] => a = b
    /\ Started \subseteq 1..Len(validRecords)
    /\ archive.finalized =>
          /\ Started = 1..Len(validRecords)
          /\ Len(renderLog) = Len(validRecords)
    /\ Len(renderLog) > 0 => ~(pc \in {"start", "extract", "logo"})

C17_Witness ==
    /\ archive.finalized
    /\ failed # {}
    /\ Len(renderLog) > CONCURRENCY_LIMIT

\* The generate operation is over: the handler has returned and, when it had
\* set a response stream up, the response has closed.
OperationOver == pc = "done" /\ (archive.created => res.closed)

\* C13: when the operation is over no uploaded file is left on disk.
C13_FilesReleased == OperationOver => disk = {}

\* C14: fs.unlinkSync is called at most once on each temporary file, and a
\* listener that runs after the other one has run leaves the disk as it is.
C14_UnlinkedOnce ==
    \A a, b \in 1..Len(fsLog) : fsLog[a] = fsLog[b] => a = b

C14_NoDoubleRelease ==
    /\ []C14_UnlinkedOnce
    /\ [][ ((archive.ended \/ res.closed)
              /\ (archive'.ended # archive.ended \/ res'.closed # res.closed))
            => (disk' = disk /\ fsLog' = fsLog) ]_vars

C14_Witness ==
    /\ archive.ended
    /\ res.closed
    /\ upload.logo
    /\ Len(fsLog) = 2
    /\ disk = {}

\* C15: once the archive has reported an error no member is appended, no
\* render is started and the archive is not finalized.
C15_ErrorAborts ==
    [][ archive.errored =>
           /\ archive'.members = archive.members
           /\ renderLog' = renderLog
           /\ archive'.finalized = archive.finalized ]_vars

\* C16: no status or body is written to a response whose headers are sent,
\* and at most one response is committed.
C16_ResponsePhase ==
    /\ res.lateWrites = 0
    /\ res.commits <= 1

\* The caption was asked for.
CaptionOn == body.showText \in {"str:true", "bool:true"}

\* C18: every render takes the fast path exactly when module shape and eye
\* shape are square, no logo was supplied and the caption is off; a supplied
\* logo is composited into every image and an enabled caption is added to
\* every image.
C18_PathSelection ==
    \A n \in 1..Len(renderPaths) :
        /\ renderPaths[n].path = "fast" <=>
              (/\ body.moduleStyle = "square"
               /\ body.eyeStyle = "square"
               /\ ~upload.logo
               /\ ~CaptionOn)
        /\ upload.logo => renderPaths[n].logo
        /\ CaptionOn => renderPaths[n].caption

\* C19: every image member is named <identifier>.<ext> for an accepted
\* identifier, with ext png for the format 'png' and jpg for any other
\* format; image member names are pairwise distinct and none is report.txt.
C19_MemberNames ==
    /\ \A n \in 1..Len(ImageMembers) :
          /\ \E k \in 1..Len(validRecords) : ImageMembers[n].serial = validRecords[k]
          /\ ImageMembers[n].name =
                ImageMembers[n].serial \o <<".">> \o
                   (IF body.format = "png" THEN <<"p", "n", "g">> ELSE <<"j", "p", "g">>)
          /\ ImageMembers[n].name # <<"r", "e", "p", "o", "r", "t", ".", "t", "x", "t">>
    /\ \A a, b \in 1..Len(ImageMembers) :
          ImageMembers[a].name = ImageMembers[b].name => a = b

C19_Witness ==
    /\ archive.finalized
    /\ body.format = "webp"
    /\ Len(ImageMembers) >= 2

\* C21: in the sequential variant a render that throws drops only its own
\* record: the catch block does not run because of it, and the handler ends
\* with every identifier rendered, the images of the others appended and
\* the archive finalized.
C21_SequentialFaultIsolation ==
    (variant = "sequential" /\ failed # {}) =>
        /\ ~caught
        /\ pc = "done" =>
              /\ archive.finalized
              /\ Started = 1..Len(validRecords)
              /\ Len(ImageMembers) = Len(validRecords) - Cardinality(failed)

\* C22: the members of a finalized archive are a function of the accepted
\* list and of the set of failed renders alone: the report, then one image
\* per identifier whose render did not fail, in list order.  Neither the
\* chunk size nor the pipeline variant enters, so runs with different chunk
\* sizes, and a sequential run without failures, produce the same sequence.
C22_ChunkSizeIrrelevant ==
    archive.finalized =>
        LET kept == SelectSeq([k \in 1..Len(validRecords) |-> k],
                              LAMBDA k : k \notin failed)
            ext == IF body.format = "png" THEN <<"p", "n", "g">> ELSE <<"j", "p", "g">>
        IN  archive.members =
               <<[name |-> <<"r", "e", "p", "o", "r", "t", ".", "t", "x", "t">>,
                  kind |-> "report", serial |-> <<>>]>>
               \o [m \in 1..Len(kept) |->
                     [name |-> validRecords[kept[m]] \o <<".">> \o ext,
                      kind |-> "image", serial |-> validRecords[kept[m]]]]

C22_Witness ==
    /\ archive.finalized
    /\ variant = "chunked"
    /\ limit = 1
    /\ Len(validRecords) = MaxRows
    /\ failed # {}
    /\ Len(ImageMembers) >= 2

\* The counts and ledger lines of the response headers and of the report are
\* those of the extraction result, and the two agree.
C23_FromExtraction ==
    /\ res.headers.expose
    /\ res.headers.total = DecimalString(Len(rawData) - startIndex)
    /\ res.headers.success = DecimalString(Len(validRecords))
    /\ res.headers.skipped = DecimalString(Len(errors))
    /\ reportContent.total = res.headers.total
    /\ reportContent.successful = res.headers.success
    /\ reportContent.skipped = res.headers.skipped
    /\ Len(reportContent.lines) = Len(errors)
    /\ \A k \in 1..Len(errors) :
          /\ reportContent.lines[k].row = DecimalString(errors[k].row)
          /\ reportContent.lines[k].error = errors[k].error
          /\ reportContent.lines[k].value =
                (IF errors[k].error = "Duplicate serial" THEN errors[k].value ELSE <<>>)

\* C23: the counts of the response headers and of the report, and the ledger
\* lines of the report, are computed from the extraction result before the
\* first render starts, agree with each other, and no later step, whether a
\* render succeeds or fails, changes them.
C23_BatchResultFixed ==
    /\ [](IF archive.created THEN C23_FromExtraction
          ELSE res.headers = NoHeaders /\ reportContent = NoReport /\ renderLog = <<>>)
    /\ [][ archive.created =>
              (res'.headers = res.headers /\ reportContent' = reportContent) ]_vars

C23_Witness ==
    /\ archive.finalized
    /\ failed # {}
    /\ Len(ImageMembers) >= 1
    /\ Len(errors) >= 1
    /\ reportContent.successful = <<"2">>
    /\ res.headers.skipped = <<"1">>

\* The cell (r, c) lies in one of the three 7x7 corners of the finder eyes.
InFinderZone(r, c, size) ==
    \/ (r <= 6 /\ c <= 6)
    \/ (r <= 6 /\ c >= size - 7)
    \/ (r >= size - 7 /\ c <= 6)

EyeShapesOf(o) == SelectSeq(o.shapes, LAMBDA sh : sh.kind = "eye")
DataShapesOf(o) == SelectSeq(o.shapes, LAMBDA sh : sh.kind = "module")

\* C24: once the styled path has drawn, shapes holds exactly nine eye shapes,
\* the 7, 5 and 3 wide squares of each of the three corners, and exactly one
\* data-module shape for each dark cell outside the three finder zones; no
\* cell of a finder zone has a data-module shape.
C24_FinderZonesOnce ==
    (out.step \in {"svg", "done"} /\ ~FastPath(body, logoPath)) =>
        LET es == EyeShapesOf(out)
            ds == DataShapesOf(out)
            n == job.size
            outside == {idx \in job.dark : ~InFinderZone(idx \div n, idx % n, n)}
        IN  /\ Len(es) = 9
            /\ \A corner \in {<<0, 0>>, <<0, n - 7>>, <<n - 7, 0>>} :
                  \A k \in 0..2 :
                      Cardinality({e \in 1..Len(es) :
                          /\ es[e].y10 = 10 * (corner[1] + k)
                          /\ es[e].x10 = 10 * (corner[2] + k)
                          /\ es[e].size10 = 10 * (7 - 2 * k)}) = 1
            /\ Len(ds) = Cardinality(outside)
            /\ {ds[d].r * n + ds[d].c : d \in 1..Len(ds)} = outside
            /\ \A d \in 1..Len(ds) : ~InFinderZone(ds[d].r, ds[d].c, n)

C24_Witness ==
    /\ out.step = "done"
    /\ job.size = MaxSize
    /\ Cardinality(job.dark) = MaxSize * MaxSize
    /\ Len(DataShapesOf(out)) = MaxSize * MaxSize - 3 * 49
    /\ body.moduleStyle = "dots"
    /\ body.eyeStyle = "rounded"

\* The logo buffers as the pre-processing leaves them.
C25_Prepared ==
    [logoBg |-> "buffer", logoResized |-> "buffer", bgWrites |-> 1, resizedWrites |-> 1]

\* What the renders started so far share, read and assign.
C25_RenderState ==
    /\ renderLog # <<>> => logoBufs = (IF logoPath # "null" THEN C25_Prepared ELSE NoBufs)
    /\ logoBufs \in {NoBufs, C25_Prepared}
    /\ \A n \in 1..Len(renderPaths) :
          /\ renderPaths[n].writes = {}
          /\ renderPaths[n].reads = {}
          /\ renderPaths[n].inputs \subseteq {"logoBg", "logoResized"}
          /\ renderPaths[n].logo => renderPaths[n].inputs = {"logoBg", "logoResized"}
    /\ \A k \in DOMAIN tasks :
          (pc = "chunk" /\ tasks[k] = "pending") => ENABLED Settle(k, TRUE)

\* C25: in the chunked pipeline the backing plate and the resized logo are
\* assigned once, before the first render starts, and not after it; a render
\* assigns no variable of the handler, takes only those two buffers as shared
\* inputs and reads no uploaded file, so a render in flight can still succeed
\* when the uploaded files have been deleted.
C25_SharedReadOnly ==
    /\ []C25_RenderState
    /\ [][ renderLog # <<>> => logoBufs' = logoBufs ]_vars

C25_Witness ==
    /\ pc = "chunk"
    /\ upload.logo
    /\ res.closed
    /\ disk = {}
    /\ logoBufs = C25_Prepared
    /\ \E k \in DOMAIN tasks : tasks[k] = "pending"
    /\ \E k \in DOMAIN tasks : tasks[k] = "ok"
    /\ renderPaths[1].inputs = {"logoBg", "logoResized"}

\* The five entities and the character each one stands for.
C26_Entities ==
    { <<<<"&", "a", "m", "p", ";">>, "&">>,
      <<<<"&", "l", "t", ";">>, "<">>,
      <<<<"&", "g", "t", ";">>, ">">>,
      <<<<"&", "q", "u", "o", "t", ";">>, "\"">>,
      <<<<"&", "a", "p", "o", "s", ";">>, "'">> }

\* t starts with the string e.
StartsWith(t, e) == Len(t) >= Len(e) /\ SubSeq(t, 1, Len(e)) = e

\* The text with every entity replaced by its character, read left to right.
RECURSIVE XmlDecode(_)
XmlDecode(t) ==
    IF t = <<>> THEN <<>>
    ELSE IF \E e \in C26_Entities : StartsWith(t, e[1])
    THEN LET e == CHOOSE x \in C26_Entities : StartsWith(t, x[1])
         IN  <<e[2]>> \o XmlDecode(SubSeq(t, Len(e[1]) + 1, Len(t)))
    ELSE <<Head(t)>> \o XmlDecode(Tail(t))

\* C26: the caption text holds no raw <, >, " or ', every & in it starts one
\* of the five entities, and decoding the entities gives the identifier back.
C26_CaptionEscaped ==
    (out.step = "done" /\ body.showText \in {"str:true", "bool:true"}) =>
        /\ \A p \in 1..Len(out.text) : out.text[p] \notin {"<", ">", "\"", "'"}
        /\ \A p \in 1..Len(out.text) :
              out.text[p] = "&" =>
                 \E e \in C26_Entities :
                     StartsWith(SubSeq(out.text, p, Len(out.text)), e[1])
        /\ XmlDecode(out.text) = job.serial

C26_Witness ==
    /\ out.step = "done"
    /\ job.serial = <<"a", "&", "l", "t", ";", "<">>
    /\ out.text = <<"a", "&", "a", "m", "p", ";", "l", "t", ";", "&", "l", "t", ";">>

\* C27: the caption band is max(40, floor(0.15 width)) pixels high and the
\* font size is floor(0.4 band height); with the caption the image is width
\* pixels wide and width plus band height pixels high, the band is as wide as
\* the image, and without the caption the image is width by width.
C27_CaptionGeometry ==
    out.step = "done" =>
        LET w == job.width
            band == IF 100 * 40 >= 15 * w THEN 40
                    ELSE CHOOSE b \in 0..w : 100 * b <= 15 * w /\ 15 * w < 100 * (b + 1)
            font == CHOOSE f \in 0..band : 10 * f <= 4 * band /\ 4 * band < 10 * (f + 1)
        IN  IF body.showText \in {"str:true", "bool:true"}
            THEN /\ out.bandH = band
                 /\ out.fontSize = font
                 /\ out.bandW = w
                 /\ out.w = w
                 /\ out.h = w + band
            ELSE /\ out.w = w
                 /\ out.h = w
                 /\ out.bandH = 0

C27_Witness ==
    /\ out.step = "done"
    /\ body.showText = "bool:true"
    /\ job.width = 280
    /\ out.bandH = 42
    /\ out.fontSize = 16
    /\ out.h = 322

\* The number a decimal string stands for.
RECURSIVE ParseDecimal(_)
ParseDecimal(str) ==
    IF str = <<>> THEN 0
    ELSE 10 * ParseDecimal(SubSeq(str, 1, Len(str) - 1))
            + (CHOOSE d \in 0..9 : Digit(d) = str[Len(str)])

\* The image members of a finalized archive against the reported success
\* count.
C28_CountsState ==
    archive.finalized =>
        LET reported == ParseDecimal(res.headers.success)
        IN  /\ ParseDecimal(reportContent.successful) = reported
            /\ Len(ImageMembers) <= reported
            /\ (Len(ImageMembers) = reported) <=> (failed = {})
            /\ Len(ImageMembers) = reported - Cardinality(failed)

\* C28: a finalized archive holds at most as many image members as the
\* success count of the report and of the X-Success-Count header, and as many
\* exactly when no render failed; a render that fails adds no ledger entry
\* and leaves the reported counts as they are.
C28_SuccessCount ==
    /\ []C28_CountsState
    /\ [][ failed' # failed =>
              /\ errors' = errors
              /\ res'.headers = res.headers
              /\ reportContent' = reportContent ]_vars

C28_Witness ==
    /\ archive.finalized
    /\ variant = "chunked"
    /\ Cardinality(failed) = 2
    /\ Len(ImageMembers) = 1
    /\ res.headers.success = <<"3">>
    /\ errors = <<>>

\* C29: once the scheduler loop is reached with a non-empty batch, and every
\* started render settles, the archive is eventually finalized; finalize
\* happens when every identifier has been rendered and the image of each one
\* that did not fail has been appended, and after it the archive is not
\* finalized again and gets no further member.
C29_Finalization ==
    /\ (pc = "loop" /\ Len(validRecords) > 0) ~> archive.finalized
    /\ [][ (~archive.finalized /\ archive'.finalized) =>
              /\ Len(settleLog) = Len(validRecords)
              /\ Len(ImageMembers) = Len(validRecords) - Cardinality(failed)
              /\ archive'.members = archive.members ]_vars
    /\ [][ archive.finalized => (archive' = archive /\ pc' = "done" /\ pc = "done") ]_vars

C29_Witness ==
    /\ archive.finalized
    /\ pc = "done"
    /\ limit < Len(validRecords)
    /\ ci >= Len(validRecords)
    /\ Len(settleLog) = MaxRows
    /\ Cardinality(failed) = 1

====
